---- MODULE Spec2Model ----
(***************************************************************************)
(* A model of the byte stream of src/bytestream.c: a ring buffer of        *)
(* cap_size + 1 usable cells inside an array of ((cap_size >> 3) + 1) << 3 *)
(* bytes, with the operations bstm_new, bstm_stat, bstm_write, bstm_read,  *)
(* bstm_readline, bstm_peek and bstm_clear.                                *)
(*                                                                         *)
(* The context is the record ctx (the fields of struct _bstm_ctx).  Every  *)
(* operation is an operator from the context and the arguments to the      *)
(* result code, the new context and what the caller's memory receives;     *)
(* every action applies one whole operation to the current context and     *)
(* records the call (call), the context before it (pre) and the history    *)
(* variable fifo: the bytes accepted by bstm_write and not yet consumed.   *)
(* The caller makes one call at a time: after a call it looks at the       *)
(* result (the state the claims are stated on) and then goes on            *)
(* (Continue), which drops the record and leaves the stream alone.         *)
(*                                                                         *)
(* A destination is caller memory of the capacity the caller states; bytes *)
(* that bstm_readline stores past that capacity are recorded as spill.     *)
(***************************************************************************)
EXTENDS Integers, Sequences, FiniteSets, TLC

VARIABLES
    ring_buff, head_idx, tail_idx, cap_size, free_size, used_size,
        \* the fields of the context
    fifo,   \* history: the bytes written and not yet consumed, oldest first
    pre,    \* the context and the history before the last call
    call,   \* the last call: its arguments and what it returned
    thr     \* the producer and consumer threads of SpecConc: where each
            \* stands in its call, and the lock of the caller

vars == <<ring_buff, head_idx, tail_idx, cap_size, free_size, used_size,
          fifo, pre, call, thr>>

---------------------------------------------------------------------------
(* Bounds of the model. *)

\* capacities 1 .. MaxCap are created
MaxCap == 3

\* bstm_write is called with 0 .. MaxWrite bytes
MaxWrite == 2

\* the calls each thread of SpecConc makes
MaxCalls == 2

---------------------------------------------------------------------------
(* Program constants. *)

\* bstm_u32_t arithmetic wraps at 2^32.  TLC's integers end at 2^31 - 1, so
\* the words of the model wrap at 2^30: the indices and sizes of the model
\* are the small numbers of the C program, U32Mod - k stands for 2^32 - k,
\* and a sum or difference wraps in the model exactly when it wraps in C
U32Mod == 1073741824

\* '\r' and '\n'
CR == 13
LF == 10

\* eol_t
EOL_NONE == 0
EOL_CR == 1
EOL_LF == 2
EOL_CRLF == 3

\* a cell of the malloc'ed array that was never written
Uninit == -1

\* the bytes callers write: one payload byte and the two terminator bytes
Byte == {65, CR, LF}

Add32(a, b) == (a + b) % U32Mod
Sub32(a, b) == (a - b + U32Mod) % U32Mod
Shl32(a, n) == (a % (U32Mod \div (2 ^ n))) * (2 ^ n)
Shr32(a, n) == a \div (2 ^ n)

Min(a, b) == IF a < b THEN a ELSE b

---------------------------------------------------------------------------
(* The context. *)

Ctx == [ring_buff |-> ring_buff, head_idx |-> head_idx, tail_idx |-> tail_idx,
        cap_size |-> cap_size, free_size |-> free_size, used_size |-> used_size]

\* buff_size = ((cap_size >> 3) + 1) << 3
BuffSize(cap) == Shl32(Add32(Shr32(cap, 3), 1), 3)

\* faulty variant: the indexes advance modulo the length of the array
Modulus_phys(c) == BuffSize(c.cap_size)

\* the modulus of every index advance in the code: cap_size + 1
Modulus(c) == Add32(c.cap_size, 1)

\* bstm_new: malloc(buff_size), memset(ctx, 0), free_size = cap_size
bstm_new(cap) ==
    [ring_buff |-> [i \in 0 .. BuffSize(cap) - 1 |-> Uninit],
     head_idx |-> 0, tail_idx |-> 0, cap_size |-> cap,
     free_size |-> cap, used_size |-> 0]

\* memcpy out of the array: the n bytes at start, start + 1, ...; a run that
\* leaves the array delivers only the cells inside it (Memcpy_oob tells)
Memcpy_from(buf, start, n) ==
    [i \in 1 .. Min(n, Cardinality(DOMAIN buf) - start) |-> buf[start + i - 1]]

Memcpy_oob(buf, start, n) == start + n > Cardinality(DOMAIN buf)

\* memcpy into the array: data[1 .. n] to the cells at start, start + 1, ...
Memcpy_to(buf, start, data, from, n) ==
    [i \in DOMAIN buf |->
        IF i >= start /\ i < start + n THEN data[from + (i - start)] ELSE buf[i]]

---------------------------------------------------------------------------
(* Index arithmetic shared by bstm_write, bstm_read, bstm_readline and     *)
(* bstm_peek (the code writes these expressions inline).                   *)

\* faulty variant: the index is reduced modulo cap_size
NextIdx_capmod(c, idx, n) == Add32(idx, n) % c.cap_size

\* (idx + n) % (cap_size + 1)
NextIdx(c, idx, n) == Add32(idx, n) % Modulus(c)

\* cap_size + 1 - idx: the cells from idx to the wrap point
FirstCopySize(c, idx) == Sub32(Add32(c.cap_size, 1), idx)

\* the result of a call: the code, the context after it, the bytes the
\* destination receives (out), the bytes copied past the destination's end
\* (spill), *len (len, when lenset), the local line_size at the return, and
\* whether a copy ran out of the array (oob)
Result(res, c, out) ==
    [res |-> res, ctx |-> c, out |-> out, spill |-> <<>>, len |-> 0,
     lenset |-> FALSE, line_size |-> 0, oob |-> FALSE]

---------------------------------------------------------------------------
(* bstm_stat *)

bstm_stat(c) == Result("BSTM_OK", c, <<c.cap_size, c.free_size, c.used_size>>)

---------------------------------------------------------------------------
(* bstm_write *)

\* faulty variant: a write that fills the buffer exactly is refused
NoSpace_offbyone(c, size) == c.free_size <= size

\* if (ctx->cache.free_size < size) return BSTM_ERR_NO_SPA;
NoSpace_capcheck(c, size) == c.cap_size < size

NoSpace(c, size) == c.free_size < size

\* the copy into the ring and the new tail_idx
WriteCopy(c, data) ==
    LET size == Len(data) IN
    IF FirstCopySize(c, c.tail_idx) >= size
    THEN [c EXCEPT !.ring_buff = Memcpy_to(c.ring_buff, c.tail_idx, data, 1, size),
                   !.tail_idx = NextIdx(c, c.tail_idx, size)]
    ELSE LET first_copy_size == FirstCopySize(c, c.tail_idx)
             second_copy_size == Sub32(size, first_copy_size)
         IN [c EXCEPT !.ring_buff =
                          Memcpy_to(Memcpy_to(c.ring_buff, c.tail_idx, data, 1,
                                              first_copy_size),
                                    0, data, first_copy_size + 1, second_copy_size),
                      !.tail_idx = second_copy_size]

\* faulty variant: free_size is not updated
WriteCache_usedonly(c, size) ==
    [c EXCEPT !.used_size = Add32(c.used_size, size)]

\* used_size += size; free_size -= size
WriteCache(c, size) ==
    [c EXCEPT !.used_size = Add32(c.used_size, size),
              !.free_size = Sub32(c.free_size, size)]

bstm_write(c, data) ==
    LET size == Len(data) IN
    IF size = 0 THEN Result("BSTM_OK", c, <<>>)
    ELSE IF NoSpace(c, size) THEN Result("BSTM_ERR_NO_SPA", c, <<>>)
    ELSE Result("BSTM_OK", WriteCache(WriteCopy(c, data), size), <<>>)

---------------------------------------------------------------------------
(* bstm_read *)

\* faulty variant: one byte more than buffered may be read
NoData_offbyone(c, size) == c.used_size < size - 1

\* if (ctx->cache.used_size < size) return BSTM_ERR_NO_DAT;
NoData(c, size) == c.used_size < size

\* faulty variant: the run is copied in one piece, on past the wrap point
RingCopy_nosplit(c, idx, size) == Memcpy_from(c.ring_buff, idx, size)

\* the bytes of the run of `size` cells that starts at idx, split at the
\* wrap point
RingCopy(c, idx, size) ==
    IF FirstCopySize(c, idx) >= size
    THEN Memcpy_from(c.ring_buff, idx, size)
    ELSE LET first_copy_size == FirstCopySize(c, idx)
             second_copy_size == Sub32(size, first_copy_size)
         IN Memcpy_from(c.ring_buff, idx, first_copy_size)
                \o Memcpy_from(c.ring_buff, 0, second_copy_size)

RingCopyOob(c, idx, size) ==
    IF FirstCopySize(c, idx) >= size
    THEN Memcpy_oob(c.ring_buff, idx, size)
    ELSE Memcpy_oob(c.ring_buff, idx, FirstCopySize(c, idx))
             \/ Memcpy_oob(c.ring_buff, 0, Sub32(size, FirstCopySize(c, idx)))

\* the new head_idx of a read of `size` bytes
ReadHead(c, size) ==
    IF FirstCopySize(c, c.head_idx) >= size
    THEN NextIdx(c, c.head_idx, size)
    ELSE Sub32(size, FirstCopySize(c, c.head_idx))

\* used_size -= size; free_size += size
ReadCache(c, size) ==
    [c EXCEPT !.used_size = Sub32(c.used_size, size),
              !.free_size = Add32(c.free_size, size)]

bstm_read(c, hasData, size) ==
    IF size = 0 THEN Result("BSTM_OK", c, <<>>)
    ELSE IF NoData(c, size) THEN Result("BSTM_ERR_NO_DAT", c, <<>>)
    ELSE Result("BSTM_OK",
                ReadCache([c EXCEPT !.head_idx = ReadHead(c, size)], size),
                IF hasData THEN RingCopy(c, c.head_idx, size) ELSE <<>>)

---------------------------------------------------------------------------
(* bstm_peek *)

\* faulty variant: peek consumes what it delivers
bstm_peek_consume(c, offs, size) ==
    IF offs >= c.used_size THEN Result("BSTM_ERR_BAD_OFFS", c, <<>>)
    ELSE IF size = 0 THEN Result("BSTM_OK", c, <<>>)
    ELSE IF c.used_size < Add32(offs, size) THEN Result("BSTM_ERR_NO_DAT", c, <<>>)
    ELSE Result("BSTM_OK",
                ReadCache([c EXCEPT !.head_idx = NextIdx(c, c.head_idx,
                                                         Add32(offs, size))],
                          Add32(offs, size)),
                RingCopy(c, NextIdx(c, c.head_idx, offs), size))

\* faulty variant: head_idx + offs is not reduced modulo cap_size + 1
bstm_peek_nowrap(c, offs, size) ==
    IF offs >= c.used_size THEN Result("BSTM_ERR_BAD_OFFS", c, <<>>)
    ELSE IF size = 0 THEN Result("BSTM_OK", c, <<>>)
    ELSE IF c.used_size < Add32(offs, size) THEN Result("BSTM_ERR_NO_DAT", c, <<>>)
    ELSE LET temp_head_idx == Add32(c.head_idx, offs)
         IN [Result("BSTM_OK", c, RingCopy(c, temp_head_idx, size))
                EXCEPT !.oob = RingCopyOob(c, temp_head_idx, size)]

\* if (ctx->cache.used_size < offs + size) return BSTM_ERR_NO_DAT;
PeekNoData(c, offs, size) == c.used_size < Add32(offs, size)

bstm_peek(c, offs, size) ==
    IF offs >= c.used_size THEN Result("BSTM_ERR_BAD_OFFS", c, <<>>)
    ELSE IF size = 0 THEN Result("BSTM_OK", c, <<>>)
    ELSE IF PeekNoData(c, offs, size) THEN Result("BSTM_ERR_NO_DAT", c, <<>>)
    ELSE LET temp_head_idx == NextIdx(c, c.head_idx, offs)
         IN [Result("BSTM_OK", c, RingCopy(c, temp_head_idx, size))
                EXCEPT !.oob = RingCopyOob(c, temp_head_idx, size)]

---------------------------------------------------------------------------
(* bstm_clear *)

\* faulty variant: the counters are reset, the indexes are not
bstm_clear_cacheonly(c) ==
    Result("BSTM_OK",
           [c EXCEPT !.free_size = c.cap_size, !.used_size = 0],
           <<>>)

bstm_clear(c) ==
    Result("BSTM_OK",
           [c EXCEPT !.head_idx = 0, !.tail_idx = 0,
                     !.free_size = c.cap_size, !.used_size = 0],
           <<>>)

---------------------------------------------------------------------------
(* find_eol and bstm_readline *)

\* the while loop of find_eol over the `size` cells of buf that start at
\* data; p is data_p and rest is rest_size
RECURSIVE find_eol_loop(_, _, _, _)
find_eol_loop(buf, p, size, rest) ==
    IF ~(rest > 0) THEN [eol |-> EOL_NONE, len |-> 0]
    ELSE IF buf[p] = CR
         THEN IF Sub32(rest, 1) >= 1 /\ buf[p + 1] = LF
              THEN [eol |-> EOL_CRLF, len |-> Add32(Sub32(size, rest), 2)]
              ELSE [eol |-> EOL_CR, len |-> Add32(Sub32(size, rest), 1)]
         ELSE IF buf[p] = LF
              THEN [eol |-> EOL_LF, len |-> Add32(Sub32(size, rest), 1)]
              ELSE find_eol_loop(buf, p + 1, size, Sub32(rest, 1))

\* faulty variant: the byte after a CR is read without asking whether it is
\* still one of the `size` cells
RECURSIVE find_eol_loop_lookahead(_, _, _, _)
find_eol_loop_lookahead(buf, p, size, rest) ==
    IF ~(rest > 0) THEN [eol |-> EOL_NONE, len |-> 0]
    ELSE IF buf[p] = CR
         THEN IF buf[p + 1] = LF
              THEN [eol |-> EOL_CRLF, len |-> Add32(Sub32(size, rest), 2)]
              ELSE [eol |-> EOL_CR, len |-> Add32(Sub32(size, rest), 1)]
         ELSE IF buf[p] = LF
              THEN [eol |-> EOL_LF, len |-> Add32(Sub32(size, rest), 1)]
              ELSE find_eol_loop_lookahead(buf, p + 1, size, Sub32(rest, 1))

find_eol_lookahead(buf, data, size) == find_eol_loop_lookahead(buf, data, size, size)

\* faulty variant: the scan goes one cell beyond the `size` cells
find_eol_onemore(buf, data, size) ==
    find_eol_loop(buf, data, Add32(size, 1), Add32(size, 1))

find_eol(buf, data, size) == find_eol_loop(buf, data, size, size)

\* if (line_size > size) return BSTM_ERR_BAD_SIZE;
BadSize(line_size, size) == line_size > size

\* faulty variant: the line is consumed also when there is no destination
LineOk_consume(c, hasData, size, hasLen, copied, new_head, line_size) ==
    [res |-> "BSTM_OK",
     ctx |-> [c EXCEPT !.head_idx = new_head,
                       !.used_size = Sub32(c.used_size, line_size),
                       !.free_size = Add32(c.free_size, line_size)],
     out |-> IF hasData THEN SubSeq(copied, 1, Min(Len(copied), size)) ELSE <<>>,
     spill |-> IF hasData THEN SubSeq(copied, Min(Len(copied), size) + 1, Len(copied))
               ELSE <<>>,
     len |-> IF hasLen THEN line_size ELSE 0,
     lenset |-> hasLen,
     line_size |-> line_size,
     oob |-> FALSE]

\* the end of a call that found a line: `copied` are the bytes the memcpy
\* calls store from data on; a destination of `size` bytes holds the first
\* `size` of them and the others land past its end
LineOk(c, hasData, size, hasLen, copied, new_head, line_size) ==
    [res |-> "BSTM_OK",
     ctx |-> IF hasData
             THEN [c EXCEPT !.head_idx = new_head,
                            !.used_size = Sub32(c.used_size, line_size),
                            !.free_size = Add32(c.free_size, line_size)]
             ELSE c,
     out |-> IF hasData THEN SubSeq(copied, 1, Min(Len(copied), size)) ELSE <<>>,
     spill |-> IF hasData THEN SubSeq(copied, Min(Len(copied), size) + 1, Len(copied))
               ELSE <<>>,
     len |-> IF hasLen THEN line_size ELSE 0,
     lenset |-> hasLen,
     line_size |-> line_size,
     oob |-> FALSE]

\* a line that lies in the first part: checked against size, copied in one
\* memcpy, head_idx = (head_idx + line_size) % (cap_size + 1)
LineInFirstPart(c, hasData, size, hasLen, line_size) ==
    IF BadSize(line_size, size)
    THEN [Result("BSTM_ERR_BAD_SIZE", c, <<>>) EXCEPT !.line_size = line_size]
    ELSE LineOk(c, hasData, size, hasLen,
                Memcpy_from(c.ring_buff, c.head_idx, line_size),
                NextIdx(c, c.head_idx, line_size), line_size)

\* the branch of a first part without terminator: the second part is
\* scanned from cell 0, and the line is copied with no check of its size
LineInSecondPart(c, hasData, size, hasLen, buff_1st_part_size) ==
    LET buff_2nd_part_size == c.tail_idx
        f2 == find_eol(c.ring_buff, 0, buff_2nd_part_size)
        line_2nd_part_size == f2.len
    IN IF f2.eol = EOL_NONE
       THEN Result("BSTM_ERR_NO_EOL", c, <<>>)
       ELSE LineOk(c, hasData, size, hasLen,
                   Memcpy_from(c.ring_buff, c.head_idx, buff_1st_part_size)
                       \o Memcpy_from(c.ring_buff, 0, line_2nd_part_size),
                   line_2nd_part_size,
                   Add32(buff_1st_part_size, line_2nd_part_size))

\* faulty variant: a CR in the last cell of the first part always ends the
\* line, ring_buff[0] is not looked at
LineAtWrap_cronly(c, hasData, size, hasLen, buff_1st_part_size, line_size) ==
    LineInFirstPart(c, hasData, size, hasLen, line_size)

\* the branch of a CR in the last cell of the first part: ring_buff[0]
\* decides between CRLF and CR
LineAtWrap(c, hasData, size, hasLen, buff_1st_part_size, line_size) ==
    IF c.ring_buff[0] = LF
    THEN IF BadSize(Add32(line_size, 1), size)
         THEN [Result("BSTM_ERR_BAD_SIZE", c, <<>>)
                   EXCEPT !.line_size = Add32(line_size, 1)]
         ELSE LineOk(c, hasData, size, hasLen,
                     Memcpy_from(c.ring_buff, c.head_idx, buff_1st_part_size)
                         \o <<LF>>,
                     1, Add32(line_size, 1))
    ELSE LineInFirstPart(c, hasData, size, hasLen, line_size)

bstm_readline(c, hasData, size, hasLen) ==
    IF ~hasData /\ ~hasLen THEN Result("BSTM_ERR", c, <<>>)
    ELSE IF size = 0 THEN Result("BSTM_ERR_BAD_SIZE", c, <<>>)
    ELSE IF c.used_size = 0 THEN Result("BSTM_ERR_NO_EOL", c, <<>>)
    ELSE LET head_to_buff_end_size == FirstCopySize(c, c.head_idx) IN
         IF c.used_size <= head_to_buff_end_size
         THEN LET f == find_eol(c.ring_buff, c.head_idx, c.used_size) IN
              IF f.eol = EOL_NONE
              THEN Result("BSTM_ERR_NO_EOL", c, <<>>)
              ELSE LineInFirstPart(c, hasData, size, hasLen, f.len)
         ELSE LET buff_1st_part_size == head_to_buff_end_size
                  f == find_eol(c.ring_buff, c.head_idx, buff_1st_part_size)
              IN IF f.eol = EOL_NONE
                 THEN LineInSecondPart(c, hasData, size, hasLen, buff_1st_part_size)
                 ELSE IF f.eol = EOL_CR /\ f.len = buff_1st_part_size
                      THEN LineAtWrap(c, hasData, size, hasLen,
                                      buff_1st_part_size, f.len)
                      ELSE LineInFirstPart(c, hasData, size, hasLen, f.len)

---------------------------------------------------------------------------
(* The cells of ring_buff each operation touches, as runs <<first cell,    *)
(* number of cells>>: one run for each memcpy, each scan of find_eol and   *)
(* the read of ring_buff[0].                                               *)

\* the runs of a copy of `size` cells from idx on, split at the wrap point
CopyRuns(c, idx, size) ==
    IF FirstCopySize(c, idx) >= size
    THEN {<<idx, size>>}
    ELSE {<<idx, FirstCopySize(c, idx)>>, <<0, Sub32(size, FirstCopySize(c, idx))>>}

\* the cells written by bstm_write
WriteRuns(c, data) ==
    IF Len(data) = 0 \/ NoSpace(c, Len(data)) THEN {}
    ELSE CopyRuns(c, c.tail_idx, Len(data))

\* the cells read by bstm_read
ReadRuns(c, hasData, size) ==
    IF size = 0 \/ NoData(c, size) \/ ~hasData THEN {}
    ELSE CopyRuns(c, c.head_idx, size)

\* the cells read by bstm_peek
PeekRuns(c, offs, size) ==
    IF offs >= c.used_size \/ size = 0 \/ PeekNoData(c, offs, size) THEN {}
    ELSE CopyRuns(c, NextIdx(c, c.head_idx, offs), size)

\* the cells read by find_eol(buf + data, size): up to the terminator, and
\* the cell behind a CR when rest_size - 1 >= 1
find_eol_run(buf, data, size) ==
    LET f == find_eol(buf, data, size) IN
    IF f.eol = EOL_NONE THEN <<data, size>>
    ELSE IF f.eol = EOL_CR /\ f.len < size THEN <<data, f.len + 1>>
    ELSE <<data, f.len>>

\* the cells read by bstm_readline
ReadLineRuns(c, hasData, size, hasLen) ==
    LET r == bstm_readline(c, hasData, size, hasLen)
        first == FirstCopySize(c, c.head_idx)
        copy == IF r.res = "BSTM_OK" /\ hasData
                THEN CopyRuns(c, c.head_idx, r.line_size) ELSE {}
    IN IF (~hasData /\ ~hasLen) \/ size = 0 \/ c.used_size = 0 THEN {}
       ELSE IF c.used_size <= first
       THEN {find_eol_run(c.ring_buff, c.head_idx, c.used_size)} \cup copy
       ELSE LET f == find_eol(c.ring_buff, c.head_idx, first) IN
            {find_eol_run(c.ring_buff, c.head_idx, first)} \cup copy
                \cup (IF f.eol = EOL_NONE
                      THEN {find_eol_run(c.ring_buff, 0, c.tail_idx)}
                      ELSE IF f.eol = EOL_CR /\ f.len = first
                      THEN {<<0, 1>>}
                      ELSE {})

---------------------------------------------------------------------------
(* The state machine: a caller that applies one operation at a time. *)

\* the byte sequences of length 0 .. n
RECURSIVE SeqsUpTo(_)
SeqsUpTo(n) ==
    IF n = 0 THEN {<<>>}
    ELSE LET shorter == SeqsUpTo(n - 1)
         IN shorter \cup {Append(s, b) : s \in {t \in shorter : Len(t) = n - 1},
                                         b \in Byte}

\* the data callers write
WriteData == SeqsUpTo(MaxWrite)

\* the sizes and offsets callers pass: everything up to one more than the
\* capacity; bstm_peek is also asked for the largest bstm_size_t
Sizes(cap) == 0 .. cap + 1

PeekSizes(cap) == Sizes(cap) \cup {U32Mod - 1}

NoCall == [op |-> "none", data |-> <<>>, hasData |-> FALSE, offs |-> 0,
           size |-> 0, hasLen |-> FALSE]

NoResult == [args |-> NoCall, res |-> "BSTM_OK", out |-> <<>>, spill |-> <<>>,
             len |-> 0, lenset |-> FALSE, line_size |-> 0, oob |-> FALSE]

\* a thread between two calls
Idle == [pc |-> "idle", data |-> <<>>, size |-> 0, reg |-> 0, calls |-> 0]

\* one caller, one call at a time: no thread is in a call
NoThreads == [locked |-> TRUE, lock |-> "none", w |-> Idle, r |-> Idle]

\* the caller is between two calls: nothing is recorded
Ready == call.args.op = "none"

\* the variables after a call that returned r
Returns(r, args, newfifo) ==
    /\ Ready
    /\ ring_buff' = r.ctx.ring_buff
    /\ head_idx' = r.ctx.head_idx
    /\ tail_idx' = r.ctx.tail_idx
    /\ cap_size' = r.ctx.cap_size
    /\ free_size' = r.ctx.free_size
    /\ used_size' = r.ctx.used_size
    /\ fifo' = newfifo
    /\ pre' = [ctx |-> Ctx, fifo |-> fifo]
    /\ call' = [args |-> args, res |-> r.res, out |-> r.out, spill |-> r.spill,
                len |-> r.len, lenset |-> r.lenset, line_size |-> r.line_size,
                oob |-> r.oob]
    /\ thr' = thr

\* the first n elements of s removed
Drop(s, n) == SubSeq(s, n + 1, Len(s))

Init ==
    \E cap \in 1 .. MaxCap :
        LET c == bstm_new(cap) IN
        /\ ring_buff = c.ring_buff
        /\ head_idx = c.head_idx
        /\ tail_idx = c.tail_idx
        /\ cap_size = c.cap_size
        /\ free_size = c.free_size
        /\ used_size = c.used_size
        /\ fifo = <<>>
        /\ pre = [ctx |-> c, fifo |-> <<>>]
        /\ call = NoResult
        /\ thr = NoThreads

Stat ==
    Returns(bstm_stat(Ctx), [NoCall EXCEPT !.op = "stat"], fifo)

Write ==
    \E data \in WriteData :
        LET r == bstm_write(Ctx, data) IN
        Returns(r, [NoCall EXCEPT !.op = "write", !.data = data, !.size = Len(data)],
                IF r.res = "BSTM_OK" THEN fifo \o data ELSE fifo)

Read ==
    \E hasData \in BOOLEAN, size \in Sizes(cap_size) :
        LET r == bstm_read(Ctx, hasData, size) IN
        Returns(r, [NoCall EXCEPT !.op = "read", !.hasData = hasData, !.size = size],
                IF r.res = "BSTM_OK" THEN Drop(fifo, size) ELSE fifo)

Peek ==
    \E offs \in Sizes(cap_size), size \in PeekSizes(cap_size) :
        Returns(bstm_peek(Ctx, offs, size),
                [NoCall EXCEPT !.op = "peek", !.hasData = TRUE, !.offs = offs,
                               !.size = size],
                fifo)

ReadLine ==
    \E hasData \in BOOLEAN, size \in Sizes(cap_size), hasLen \in BOOLEAN :
        LET r == bstm_readline(Ctx, hasData, size, hasLen) IN
        Returns(r, [NoCall EXCEPT !.op = "readline", !.hasData = hasData,
                                  !.size = size, !.hasLen = hasLen],
                IF r.res = "BSTM_OK" /\ hasData THEN Drop(fifo, r.line_size) ELSE fifo)

Clear ==
    Returns(bstm_clear(Ctx), [NoCall EXCEPT !.op = "clear"], <<>>)

\* the caller has looked at the result of its last call and goes on to the
\* next one: the record of the call is dropped, the stream is left alone
Continue ==
    /\ ~Ready
    /\ call' = NoResult
    /\ pre' = [ctx |-> Ctx, fifo |-> fifo]
    /\ UNCHANGED <<ring_buff, head_idx, tail_idx, cap_size, free_size, used_size,
                   fifo, thr>>

Next == Stat \/ Write \/ Read \/ Peek \/ ReadLine \/ Clear \/ Continue

Spec == Init /\ [][Next]_vars

---------------------------------------------------------------------------
(* Construction with every kind of configuration: SpecNew starts where     *)
(* bstm_new has returned, for a NULL conf, for the capacities of Spec, for *)
(* capacity 0 and for the largest capacities, and with malloc succeeding   *)
(* or failing.                                                             *)

\* BSTM_DEF_CAP_SIZE
BSTM_DEF_CAP_SIZE == 1024

NullConf == [null |-> TRUE, cap_size |-> 0]

\* the configurations given to bstm_new: the capacities whose array the
\* model can hold (those above U32Mod - 9 get an array of 0 bytes)
NewConfs ==
    {NullConf}
        \cup {[null |-> FALSE, cap_size |-> cap] :
                  cap \in (0 .. MaxCap) \cup ((U32Mod - 8) .. (U32Mod - 1))}

\* cap_size = conf != NULL ? conf->cap_size : BSTM_DEF_CAP_SIZE
ConfCap(conf) == IF conf.null THEN BSTM_DEF_CAP_SIZE ELSE conf.cap_size

\* no context: bstm_new returned before *ctx = alloc_ctx
NoCtx == [ring_buff |-> <<>>, head_idx |-> 0, tail_idx |-> 0, cap_size |-> 0,
          free_size |-> 0, used_size |-> 0]

\* bstm_new(&ctx, conf); mem tells whether both malloc calls returned memory
\* (malloc(0) may return NULL as well)
bstm_new_conf(conf, mem) ==
    IF mem
    THEN Result("BSTM_OK", bstm_new(ConfCap(conf)), <<>>)
    ELSE Result("BSTM_ERR_NO_MEM", NoCtx, <<>>)

InitNew ==
    \E conf \in NewConfs, mem \in BOOLEAN :
        LET r == bstm_new_conf(conf, mem) IN
        /\ ring_buff = r.ctx.ring_buff
        /\ head_idx = r.ctx.head_idx
        /\ tail_idx = r.ctx.tail_idx
        /\ cap_size = r.ctx.cap_size
        /\ free_size = r.ctx.free_size
        /\ used_size = r.ctx.used_size
        /\ fifo = <<>>
        /\ pre = [ctx |-> NoCtx, fifo |-> <<>>]
        /\ call = [args |-> [NoCall EXCEPT !.op = "new", !.hasData = ~conf.null,
                                           !.size = conf.cap_size],
                   res |-> r.res, out |-> <<>>, spill |-> <<>>, len |-> 0,
                   lenset |-> FALSE, line_size |-> 0, oob |-> FALSE]
        /\ thr = NoThreads

\* the caller has a context to call with; the calls are explored on the
\* streams of a capacity up to MaxCap
HasStream ==
    /\ ~(call.args.op = "new" /\ call.res # "BSTM_OK")
    /\ cap_size <= MaxCap

NextNew == HasStream /\ Next

SpecNew == InitNew /\ [][NextNew]_vars

---------------------------------------------------------------------------
(* A producer thread in bstm_write and a consumer thread in bstm_read on   *)
(* one context. The code has no synchronisation: each thread goes through  *)
(* its call statement by statement, and each `+=` and `-=` on the cache is *)
(* a load into a register and a store from it. SpecConc starts either with *)
(* a caller that wraps every call in one lock (thr.locked) or with one     *)
(* that does not. The indexes and the cells are not raced for: tail_idx is *)
(* the producer's and head_idx the consumer's. The bytes the consumer      *)
(* receives are its own memory and are left out.                           *)

\* used_size += size of bstm_write, from the loaded value
WriteUsed(reg, size) == Add32(reg, size)

\* free_size -= size of bstm_write
WriteFree(reg, size) == Sub32(reg, size)

\* used_size -= size of bstm_read
ReadUsed(reg, size) == Sub32(reg, size)

\* faulty variant: bstm_read takes the size from free_size as well
ReadFree_sub(reg, size) == Sub32(reg, size)

\* free_size += size of bstm_read
ReadFree(reg, size) == Add32(reg, size)

\* thread t may enter a call: with a locking caller, when it gets the lock
CanEnter(t) == thr.locked => thr.lock = "none"

\* the lock after thread t has entered, and after it has returned
Entered(t) == IF thr.locked THEN t ELSE thr.lock

Left(t) == IF thr.locked THEN "none" ELSE thr.lock

\* thread t goes on to the statement at pc
Goes(t, pc) == thr' = [thr EXCEPT ![t].pc = pc]

\* thread t returns from its call: its arguments and its register are gone
Leaves(t) ==
    thr' = [thr EXCEPT ![t] = [Idle EXCEPT !.calls = thr[t].calls],
                       !.lock = Left(t)]

\* what the producer writes: the cache depends on the sizes only, so one
\* run of the letter A of each size
ConcData == {data \in WriteData : \A i \in 1 .. Len(data) : data[i] = 65}

InitConc ==
    \E cap \in 1 .. MaxCap, locked \in BOOLEAN :
        LET c == bstm_new(cap) IN
        /\ ring_buff = c.ring_buff
        /\ head_idx = c.head_idx
        /\ tail_idx = c.tail_idx
        /\ cap_size = c.cap_size
        /\ free_size = c.free_size
        /\ used_size = c.used_size
        /\ fifo = <<>>
        /\ pre = [ctx |-> c, fifo |-> <<>>]
        /\ call = NoResult
        /\ thr = [NoThreads EXCEPT !.locked = locked]

\* the producer calls bstm_write(ctx, data, size)
W_Call ==
    /\ thr.w.pc = "idle" /\ thr.w.calls < MaxCalls /\ CanEnter("w")
    /\ \E data \in ConcData :
          thr' = [thr EXCEPT !.w = [pc |-> "check", data |-> data,
                                    size |-> Len(data), reg |-> 0,
                                    calls |-> thr.w.calls + 1],
                             !.lock = Entered("w")]
    /\ UNCHANGED <<ring_buff, head_idx, tail_idx, cap_size, free_size, used_size,
                   fifo, pre, call>>

\* if (size == 0) return; if (cache.free_size < size) return
W_Check ==
    /\ thr.w.pc = "check"
    /\ IF thr.w.size = 0 \/ NoSpace(Ctx, thr.w.size)
       THEN Leaves("w")
       ELSE Goes("w", "copy")
    /\ UNCHANGED <<ring_buff, head_idx, tail_idx, cap_size, free_size, used_size,
                   fifo, pre, call>>

\* the copy into the ring and the new tail_idx; data is not used again
W_Copy ==
    /\ thr.w.pc = "copy"
    /\ ring_buff' = WriteCopy(Ctx, thr.w.data).ring_buff
    /\ tail_idx' = WriteCopy(Ctx, thr.w.data).tail_idx
    /\ thr' = [thr EXCEPT !.w.pc = "load_used", !.w.data = <<>>]
    /\ UNCHANGED <<head_idx, cap_size, free_size, used_size, fifo, pre, call>>

\* cache.used_size += size: the load
W_LoadUsed ==
    /\ thr.w.pc = "load_used"
    /\ thr' = [thr EXCEPT !.w.pc = "store_used", !.w.reg = used_size]
    /\ UNCHANGED <<ring_buff, head_idx, tail_idx, cap_size, free_size, used_size,
                   fifo, pre, call>>

\* cache.used_size += size: the store
W_StoreUsed ==
    /\ thr.w.pc = "store_used"
    /\ used_size' = WriteUsed(thr.w.reg, thr.w.size)
    /\ Goes("w", "load_free")
    /\ UNCHANGED <<ring_buff, head_idx, tail_idx, cap_size, free_size, fifo, pre,
                   call>>

\* cache.free_size -= size: the load
W_LoadFree ==
    /\ thr.w.pc = "load_free"
    /\ thr' = [thr EXCEPT !.w.pc = "store_free", !.w.reg = free_size]
    /\ UNCHANGED <<ring_buff, head_idx, tail_idx, cap_size, free_size, used_size,
                   fifo, pre, call>>

\* cache.free_size -= size: the store; return BSTM_OK
W_StoreFree ==
    /\ thr.w.pc = "store_free"
    /\ free_size' = WriteFree(thr.w.reg, thr.w.size)
    /\ Leaves("w")
    /\ UNCHANGED <<ring_buff, head_idx, tail_idx, cap_size, used_size, fifo, pre,
                   call>>

\* the consumer calls bstm_read(ctx, data, size)
R_Call ==
    /\ thr.r.pc = "idle" /\ thr.r.calls < MaxCalls /\ CanEnter("r")
    /\ \E size \in Sizes(cap_size) :
          thr' = [thr EXCEPT !.r = [pc |-> "check", data |-> <<>>,
                                    size |-> size, reg |-> 0,
                                    calls |-> thr.r.calls + 1],
                             !.lock = Entered("r")]
    /\ UNCHANGED <<ring_buff, head_idx, tail_idx, cap_size, free_size, used_size,
                   fifo, pre, call>>

\* if (size == 0) return; if (cache.used_size < size) return
R_Check ==
    /\ thr.r.pc = "check"
    /\ IF thr.r.size = 0 \/ NoData(Ctx, thr.r.size)
       THEN Leaves("r")
       ELSE Goes("r", "copy")
    /\ UNCHANGED <<ring_buff, head_idx, tail_idx, cap_size, free_size, used_size,
                   fifo, pre, call>>

\* the copy out of the ring and the new head_idx
R_Copy ==
    /\ thr.r.pc = "copy"
    /\ head_idx' = ReadHead(Ctx, thr.r.size)
    /\ Goes("r", "load_used")
    /\ UNCHANGED <<ring_buff, tail_idx, cap_size, free_size, used_size, fifo, pre,
                   call>>

\* cache.used_size -= size: the load
R_LoadUsed ==
    /\ thr.r.pc = "load_used"
    /\ thr' = [thr EXCEPT !.r.pc = "store_used", !.r.reg = used_size]
    /\ UNCHANGED <<ring_buff, head_idx, tail_idx, cap_size, free_size, used_size,
                   fifo, pre, call>>

\* cache.used_size -= size: the store
R_StoreUsed ==
    /\ thr.r.pc = "store_used"
    /\ used_size' = ReadUsed(thr.r.reg, thr.r.size)
    /\ Goes("r", "load_free")
    /\ UNCHANGED <<ring_buff, head_idx, tail_idx, cap_size, free_size, fifo, pre,
                   call>>

\* cache.free_size += size: the load
R_LoadFree ==
    /\ thr.r.pc = "load_free"
    /\ thr' = [thr EXCEPT !.r.pc = "store_free", !.r.reg = free_size]
    /\ UNCHANGED <<ring_buff, head_idx, tail_idx, cap_size, free_size, used_size,
                   fifo, pre, call>>

\* cache.free_size += size: the store; return BSTM_OK
R_StoreFree ==
    /\ thr.r.pc = "store_free"
    /\ free_size' = ReadFree(thr.r.reg, thr.r.size)
    /\ Leaves("r")
    /\ UNCHANGED <<ring_buff, head_idx, tail_idx, cap_size, used_size, fifo, pre,
                   call>>

NextConc ==
    \/ W_Call \/ W_Check \/ W_Copy \/ W_LoadUsed \/ W_StoreUsed \/ W_LoadFree
    \/ W_StoreFree
    \/ R_Call \/ R_Check \/ R_Copy \/ R_LoadUsed \/ R_StoreUsed \/ R_LoadFree
    \/ R_StoreFree

SpecConc == InitConc /\ [][NextConc]_vars

---------------------------------------------------------------------------
(* What the claims speak of. *)

\* the last call was op
Called(op) == call.args.op = op

\* the last call left the context and the buffered bytes as they were
Unchanged == Ctx = pre.ctx /\ fifo = pre.fifo

\* the cells from the head to the wrap point before the last call
PreFirstPart == pre.ctx.cap_size + 1 - pre.ctx.head_idx

\* the buffered bytes lay across the wrap point before the last call
PreWrapped == pre.ctx.used_size > PreFirstPart

\* one linear scan of the byte sequence s: the length of its first line with
\* the terminator, 0 when s holds no CR and no LF
IsEol(b) == b = CR \/ b = LF

FirstEol(s) ==
    IF \E i \in 1 .. Len(s) : IsEol(s[i])
    THEN CHOOSE i \in 1 .. Len(s) : IsEol(s[i]) /\ \A j \in 1 .. i - 1 : ~IsEol(s[j])
    ELSE 0

ScanLen(s) ==
    LET i == FirstEol(s) IN
    IF i = 0 THEN 0
    ELSE IF s[i] = LF THEN i
    ELSE IF i + 1 <= Len(s) /\ s[i + 1] = LF THEN i + 1
    ELSE i

---------------------------------------------------------------------------
(* C1: the bytes a successful read(size) delivers are the `size` oldest    *)
(* bytes written and not yet consumed, in the order they were written,     *)
(* whatever writes, reads, peeks, readLines and clears came before and     *)
(* wherever the wrap point lies in the written or the read run.            *)
C1_RoundTrip ==
    (Called("read") /\ call.res = "BSTM_OK" /\ call.args.size > 0) =>
        /\ call.args.size <= Len(pre.fifo)
        /\ call.args.hasData => call.out = SubSeq(pre.fifo, 1, call.args.size)
        /\ fifo = Drop(pre.fifo, call.args.size)
        /\ ~call.oob

\* a read whose run crosses the wrap point, of bytes that are not all equal
C1_Witness ==
    /\ Called("read") /\ call.res = "BSTM_OK" /\ call.args.hasData
    /\ pre.ctx.head_idx + call.args.size > pre.ctx.cap_size + 1
    /\ call.out[1] # call.out[Len(call.out)]
    /\ call.out = SubSeq(pre.fifo, 1, call.args.size)

(* C2: in every reachable state used + free = capacity, both counters in   *)
(* 0 .. capacity, after calls that succeeded and calls that failed.        *)
C2_Counters ==
    /\ used_size + free_size = cap_size
    /\ used_size \in 0 .. cap_size
    /\ free_size \in 0 .. cap_size

\* a readLine that consumed a line of a full buffer lying across the wrap
\* point
C2_Witness ==
    /\ Called("readline") /\ call.res = "BSTM_OK" /\ call.args.hasData
    /\ PreWrapped /\ pre.ctx.free_size = 0
    /\ used_size + call.line_size = pre.ctx.used_size

(* C3: a write of exactly `free` bytes succeeds and leaves free = 0 and    *)
(* used = capacity; a write of more than `free` bytes returns              *)
(* InsufficientSpace and leaves indices, counters, storage and buffered    *)
(* bytes as they were.                                                     *)
C3_WriteAllOrNothing ==
    Called("write") =>
        /\ call.args.size = pre.ctx.free_size =>
              /\ call.res = "BSTM_OK"
              /\ free_size = 0 /\ used_size = cap_size
              /\ fifo = pre.fifo \o call.args.data
        /\ call.args.size > pre.ctx.free_size =>
              /\ call.res = "BSTM_ERR_NO_SPA"
              /\ Unchanged

\* a write of one byte too many into a buffer that still has room
C3_Witness ==
    /\ Called("write") /\ call.res = "BSTM_ERR_NO_SPA"
    /\ pre.ctx.free_size >= 1
    /\ call.args.size = pre.ctx.free_size + 1
    /\ Unchanged

(* C4: a read of more than `used` bytes returns InsufficientData and       *)
(* changes nothing; a read of 0 bytes succeeds and changes nothing, on an  *)
(* empty buffer too.                                                       *)
C4_ReadFails ==
    Called("read") =>
        /\ call.args.size > pre.ctx.used_size =>
              call.res = "BSTM_ERR_NO_DAT" /\ Unchanged /\ call.out = <<>>
        /\ call.args.size = 0 =>
              call.res = "BSTM_OK" /\ Unchanged /\ call.out = <<>>

\* a read of one byte more than a non-empty buffer holds
C4_Witness ==
    /\ Called("read") /\ call.res = "BSTM_ERR_NO_DAT"
    /\ pre.ctx.used_size >= 1
    /\ call.args.size = pre.ctx.used_size + 1
    /\ Unchanged

(* C5: peek leaves head, tail, used, free and the buffered bytes as they   *)
(* were, whatever its arguments and whatever it returns.                   *)
C5_PeekFrame ==
    Called("peek") => Unchanged

\* a peek that copied bytes from both sides of the wrap point
C5_Witness ==
    /\ Called("peek") /\ call.res = "BSTM_OK" /\ Len(call.out) >= 2
    /\ pre.ctx.head_idx + call.args.offs < pre.ctx.cap_size + 1
    /\ pre.ctx.head_idx + call.args.offs + call.args.size > pre.ctx.cap_size + 1
    /\ Unchanged

(* C6: a peek(offset, size) with offset < used and offset + size <= used   *)
(* succeeds and delivers the buffered bytes at the logical positions       *)
(* offset .. offset + size - 1, also when head + offset wraps and when the *)
(* run crosses the wrap point; peek(0, n) delivers what a read(n) made     *)
(* next delivers.                                                          *)
C6_PeekBytes ==
    (/\ Called("peek")
     /\ call.args.offs < pre.ctx.used_size
     /\ call.args.offs + call.args.size <= pre.ctx.used_size) =>
        /\ call.res = "BSTM_OK"
        /\ call.out = SubSeq(pre.fifo, call.args.offs + 1,
                             call.args.offs + call.args.size)
        /\ ~call.oob
        /\ call.args.offs = 0 =>
              call.out = bstm_read(Ctx, TRUE, call.args.size).out

\* a peek whose first cell lies behind the wrap point (head + offset wraps)
C6_Witness ==
    /\ Called("peek") /\ call.res = "BSTM_OK" /\ call.args.size >= 1
    /\ call.args.offs >= 1
    /\ pre.ctx.head_idx + call.args.offs >= pre.ctx.cap_size + 1
    /\ call.out = SubSeq(pre.fifo, call.args.offs + 1,
                         call.args.offs + call.args.size)

\* the arguments of the last readLine were valid: a destination or a length
\* pointer, and a destination capacity of at least 1
ValidLineArgs ==
    /\ Called("readline")
    /\ call.args.hasData \/ call.args.hasLen
    /\ call.args.size >= 1

(* C7: the line length readLine discovers is that of one linear scan of    *)
(* the buffered bytes in logical order: up to and with the first LF, or    *)
(* the first CR and the LF right behind it if that is buffered, or the     *)
(* first CR alone; wherever the wrap point lies in the buffered bytes.     *)
C7_LineLength ==
    ValidLineArgs =>
        /\ ScanLen(pre.fifo) > 0 => call.res \in {"BSTM_OK", "BSTM_ERR_BAD_SIZE"}
        /\ call.res \in {"BSTM_OK", "BSTM_ERR_BAD_SIZE"} =>
              /\ call.line_size = ScanLen(pre.fifo)
              /\ call.line_size > 0
        /\ call.lenset => call.res = "BSTM_OK" /\ call.len = ScanLen(pre.fifo)

\* a line that ends behind the wrap point with a CR that is the last
\* buffered byte, a stale LF lying in the cell behind it
C7_Witness ==
    /\ ValidLineArgs /\ call.res = "BSTM_OK" /\ call.lenset
    /\ PreWrapped
    /\ call.len = pre.ctx.used_size
    /\ call.len > PreFirstPart + 1
    /\ pre.fifo[call.len] = CR
    /\ pre.ctx.ring_buff[pre.ctx.tail_idx] = LF

\* before the last call the buffered bytes wrapped, the last cell of the
\* first part held the first terminator byte, a CR, and cell 0 held an LF
CrLfAcrossWrap ==
    /\ PreWrapped
    /\ pre.ctx.ring_buff[pre.ctx.cap_size] = CR
    /\ \A i \in pre.ctx.head_idx .. pre.ctx.cap_size - 1 :
          ~IsEol(pre.ctx.ring_buff[i])
    /\ pre.ctx.ring_buff[0] = LF

(* C8: with the buffered bytes wrapped, a CR (the first terminator byte)   *)
(* in the last cell of the first part and an LF in cell 0, readLine finds  *)
(* one CRLF line of (first part + 1) bytes, delivers both terminator bytes *)
(* and consumes both: head is 1, the cell behind the LF, and used has      *)
(* dropped by the whole length.                                            *)
C8_CrLfAcrossWrap ==
    (ValidLineArgs /\ CrLfAcrossWrap /\ call.args.size >= PreFirstPart + 1) =>
        /\ call.res = "BSTM_OK"
        /\ call.line_size = PreFirstPart + 1
        /\ call.lenset => call.len = PreFirstPart + 1
        /\ call.args.hasData =>
              /\ call.out = SubSeq(pre.fifo, 1, PreFirstPart + 1)
              /\ call.out[PreFirstPart] = CR
              /\ call.out[PreFirstPart + 1] = LF
              /\ head_idx = 1
              /\ tail_idx = pre.ctx.tail_idx
              /\ used_size = pre.ctx.used_size - (PreFirstPart + 1)
              /\ free_size = pre.ctx.free_size + (PreFirstPart + 1)
              /\ fifo = Drop(pre.fifo, PreFirstPart + 1)

\* such a line with a payload byte before the CR, consumed
C8_Witness ==
    /\ ValidLineArgs /\ CrLfAcrossWrap /\ call.args.hasData
    /\ PreFirstPart >= 2
    /\ call.res = "BSTM_OK"
    /\ call.out = SubSeq(pre.fifo, 1, PreFirstPart) \o <<LF>>
    /\ head_idx = 1

(* C9: for every destinationCapacity >= 1, when the buffered bytes hold a  *)
(* terminator and the line with its terminator is longer than the          *)
(* capacity, readLine returns BufferTooSmall, copies nothing and changes   *)
(* nothing; so whenever readLine returns Ok the line fits the capacity.    *)
C9_BufferTooSmall ==
    ValidLineArgs =>
        /\ ScanLen(pre.fifo) > call.args.size =>
              /\ call.res = "BSTM_ERR_BAD_SIZE"
              /\ call.out = <<>> /\ call.spill = <<>>
              /\ Unchanged
        /\ call.res = "BSTM_OK" => call.line_size <= call.args.size

(* C10: a successful readLine with a destination and the length L does     *)
(* what read(L) does: the destination receives the first L buffered bytes, *)
(* head advances by L modulo the wrap modulus, used drops and free grows   *)
(* by L, tail stays, and the buffered bytes lose their first L.            *)
C10_ReadLineIsRead ==
    (ValidLineArgs /\ call.args.hasData /\ call.res = "BSTM_OK") =>
        LET L == call.line_size
            r == bstm_read(pre.ctx, TRUE, L)
        IN /\ r.res = "BSTM_OK"
           /\ Ctx = r.ctx
           /\ call.out = r.out
           /\ call.out = SubSeq(pre.fifo, 1, L)
           /\ call.spill = <<>>
           /\ head_idx = (pre.ctx.head_idx + L) % (cap_size + 1)
           /\ used_size = pre.ctx.used_size - L
           /\ free_size = pre.ctx.free_size + L
           /\ tail_idx = pre.ctx.tail_idx
           /\ fifo = Drop(pre.fifo, L)

\* what is left of C10 where the line fits the destination: the only
\* conjuncts of C10 that fail are those on the bytes the destination holds,
\* and they fail only for a line longer than the destination
C10_ExceptOverflow ==
    (ValidLineArgs /\ call.args.hasData /\ call.res = "BSTM_OK") =>
        LET L == call.line_size
            r == bstm_read(pre.ctx, TRUE, L)
        IN /\ r.res = "BSTM_OK"
           /\ Ctx = r.ctx
           /\ call.out \o call.spill = r.out
           /\ L <= call.args.size => call.out = r.out /\ call.spill = <<>>
           /\ fifo = Drop(pre.fifo, L)

\* the last call was a readLine for the length alone: no destination, a
\* length pointer and a capacity of at least 1
LengthOnly ==
    /\ Called("readline")
    /\ ~call.args.hasData /\ call.args.hasLen
    /\ call.args.size >= 1

C12_NoEol ==
    ValidLineArgs =>
        /\ call.res = "BSTM_ERR_NO_EOL" <=> ScanLen(pre.fifo) = 0
        /\ call.res = "BSTM_ERR_NO_EOL" <=>
              (pre.ctx.used_size = 0
                   \/ \A i \in 1 .. Len(pre.fifo) : ~IsEol(pre.fifo[i]))
        /\ call.res = "BSTM_ERR_NO_EOL" => Unchanged /\ call.out = <<>>

\* a NoEol on buffered bytes that lie across the wrap point, with a stale
\* terminator byte in the cell behind the last buffered byte
C12_Witness ==
    /\ ValidLineArgs /\ call.res = "BSTM_ERR_NO_EOL"
    /\ PreWrapped
    /\ IsEol(pre.ctx.ring_buff[pre.ctx.tail_idx])
    /\ Unchanged

(* C13: peek returns InsufficientData whenever offset + size, as a         *)
(* mathematical sum, is greater than used, for all 32-bit offset < used    *)
(* and size, also when the 32-bit sum wraps around (offset = 1, size =     *)
(* 2^32 - 1); no such call copies a byte.                                  *)
C13_PeekSum ==
    (/\ Called("peek")
     /\ call.args.offs < pre.ctx.used_size
     /\ call.args.offs + call.args.size > pre.ctx.used_size) =>
        /\ call.res = "BSTM_ERR_NO_DAT"
        /\ call.out = <<>>
        /\ ~call.oob

\* the same for the sums that do not wrap: the part of C13 the code keeps
C13_ExceptWrap ==
    (/\ Called("peek")
     /\ call.args.offs < pre.ctx.used_size
     /\ call.args.offs + call.args.size > pre.ctx.used_size
     /\ call.args.offs + call.args.size < U32Mod) =>
        /\ call.res = "BSTM_ERR_NO_DAT"
        /\ call.out = <<>>
        /\ ~call.oob

(* C14: clear always succeeds and sets head = tail = 0, used = 0 and       *)
(* free = capacity without changing the capacity; after it status reports  *)
(* used 0 and free = capacity, read, peek and readLine find no data, and a *)
(* write of the whole capacity succeeds.                                   *)
C14_Clear ==
    Called("clear") =>
        /\ call.res = "BSTM_OK"
        /\ head_idx = 0 /\ tail_idx = 0
        /\ used_size = 0 /\ free_size = cap_size
        /\ cap_size = pre.ctx.cap_size
        /\ fifo = <<>>
        /\ bstm_stat(Ctx).out = <<cap_size, cap_size, 0>>
        /\ \A size \in Sizes(cap_size) \ {0} :
              bstm_read(Ctx, TRUE, size).res = "BSTM_ERR_NO_DAT"
        /\ \A offs \in Sizes(cap_size), size \in PeekSizes(cap_size) :
              bstm_peek(Ctx, offs, size).res = "BSTM_ERR_BAD_OFFS"
        /\ \A hasData \in BOOLEAN, hasLen \in BOOLEAN, size \in Sizes(cap_size) \ {0} :
              (hasData \/ hasLen) =>
                  bstm_readline(Ctx, hasData, size, hasLen).res = "BSTM_ERR_NO_EOL"
        /\ \A data \in [1 .. cap_size -> Byte] :
              LET w == bstm_write(Ctx, data)
              IN /\ w.res = "BSTM_OK"
                 /\ w.ctx.used_size = cap_size /\ w.ctx.free_size = 0
                 /\ bstm_read(w.ctx, TRUE, cap_size).out = data

\* a clear of a full buffer whose bytes lay across the wrap point and held
\* a terminator, which stays in the storage
C14_Witness ==
    /\ Called("clear") /\ call.res = "BSTM_OK"
    /\ PreWrapped /\ pre.ctx.free_size = 0
    /\ ScanLen(pre.fifo) > 0
    /\ \E i \in 0 .. cap_size : IsEol(ring_buff[i])
    /\ used_size = 0 /\ head_idx = 0

(* C15: create rejects the capacity 0 and every capacity greater than      *)
(* 0xFFFFFFFF - 8, producing no usable handle; for every capacity it       *)
(* accepts, and for 1024 when none is given, the new buffer starts with    *)
(* head = tail = 0, used = 0 and free = capacity.                          *)
C15_Create ==
    call.args.op = "new" =>
        /\ (call.args.hasData
                /\ (call.args.size = 0 \/ call.args.size > U32Mod - 1 - 8)) =>
              call.res # "BSTM_OK"
        /\ call.res = "BSTM_OK" =>
              /\ cap_size = IF call.args.hasData THEN call.args.size
                            ELSE BSTM_DEF_CAP_SIZE
              /\ head_idx = 0 /\ tail_idx = 0
              /\ used_size = 0 /\ free_size = cap_size

\* the second half of C15 alone: what every stream bstm_new creates is
C15_Created ==
    (call.args.op = "new" /\ call.res = "BSTM_OK") =>
        /\ cap_size = IF call.args.hasData THEN call.args.size
                      ELSE BSTM_DEF_CAP_SIZE
        /\ head_idx = 0 /\ tail_idx = 0
        /\ used_size = 0 /\ free_size = cap_size

\* the modulus of the index advances: cap_size + 1
M == cap_size + 1

(* C16: in every reachable state used = (tail - head) mod M, M the modulus *)
(* of the index advances; so head = tail exactly when the buffer is empty, *)
(* and a full buffer has head # tail.  Every successful write, read,       *)
(* readLine with destination and clear keeps this, and a failed call       *)
(* leaves indices and counters untouched.                                  *)
C16_CacheMatchesIndices ==
    /\ head_idx \in 0 .. M - 1 /\ tail_idx \in 0 .. M - 1
    /\ used_size = (tail_idx - head_idx + M) % M
    /\ head_idx = tail_idx <=> used_size = 0
    /\ used_size = cap_size => head_idx # tail_idx
    /\ call.res # "BSTM_OK" => Unchanged

\* a readLine with destination took a line from a full buffer and left
\* bytes that lie across the wrap point, the tail in front of the head
C16_Witness ==
    /\ Called("readline") /\ call.res = "BSTM_OK" /\ call.args.hasData
    /\ PreWrapped /\ pre.ctx.used_size = cap_size
    /\ used_size >= 1
    /\ tail_idx < head_idx
    /\ used_size = tail_idx - head_idx + M

\* the length of the allocated array
Phys == BuffSize(cap_size)

\* the last call was a write or a read that moved bytes
Wrote == Called("write") /\ call.res = "BSTM_OK" /\ call.args.size >= 1
Took == Called("read") /\ call.res = "BSTM_OK" /\ call.args.size >= 1

LastReads ==
    IF Called("read")
    THEN ReadRuns(pre.ctx, call.args.hasData, call.args.size)
    ELSE IF Called("peek")
    THEN PeekRuns(pre.ctx, call.args.offs, call.args.size)
    ELSE IF Called("readline")
    THEN ReadLineRuns(pre.ctx, call.args.hasData, call.args.size, call.args.hasLen)
    ELSE {}

LastWrites ==
    IF Called("write") THEN WriteRuns(pre.ctx, call.args.data) ELSE {}

\* the run lies in the allocated array
RunInArray(c, run) ==
    run[2] = 0 \/ run[1] + run[2] <= Cardinality(DOMAIN c.ring_buff)

\* cell i held a buffered byte of the context c
Live(c, i) ==
    /\ i \in 0 .. c.cap_size
    /\ (i - c.head_idx + c.cap_size + 1) % (c.cap_size + 1) < c.used_size

\* the run lies in the array and in the live region of c
RunLive(c, run) ==
    /\ RunInArray(c, run)
    /\ \A i \in run[1] .. run[1] + run[2] - 1 : Live(c, i)

\* the capacities 1 .. 0xFFFFFFFF - 8 the model can compute with: the array
\* holds the cap_size + 1 cells the indexes run over
ArrayHoldsRing ==
    \A cap \in (1 .. 64) \cup ((U32Mod - 72) .. (U32Mod - 9)) :
        /\ Add32(cap, 1) <= BuffSize(cap)
        /\ BuffSize(cap) > cap

(* C18: for every capacity in 1 .. 0xFFFFFFFF - 8 and every reachable      *)
(* state, head and tail lie in [0, physical_capacity), and every cell that *)
(* write, read, peek or readLine reads or writes (the look-ahead of        *)
(* find_eol behind a CR and the read of cell 0 in the wrap case included)  *)
(* lies in the allocated array and, when read, in the live region between  *)
(* head and tail.                                                          *)
C18_InBounds ==
    /\ ArrayHoldsRing
    /\ head_idx \in 0 .. Phys - 1 /\ tail_idx \in 0 .. Phys - 1
    /\ \A run \in LastWrites : RunInArray(pre.ctx, run)
    /\ \A run \in LastReads : RunLive(pre.ctx, run)
    /\ ~call.oob

\* C18 for all calls but the peeks whose offs + size wraps around
C18_ExceptPeekWrap ==
    (Called("peek") => call.args.offs + call.args.size < U32Mod) =>
        /\ ArrayHoldsRing
        /\ head_idx \in 0 .. Phys - 1 /\ tail_idx \in 0 .. Phys - 1
        /\ \A run \in LastWrites : RunInArray(pre.ctx, run)
        /\ \A run \in LastReads : RunLive(pre.ctx, run)
        /\ ~call.oob

\* before the last call the buffer was full and held no CR and no LF
PreStuck ==
    /\ call.args.op # "none"
    /\ pre.ctx.used_size = pre.ctx.cap_size
    /\ \A i \in 1 .. Len(pre.fifo) : ~IsEol(pre.fifo[i])

\* the buffer is full and holds no CR and no LF
Stuck ==
    /\ used_size = cap_size
    /\ \A i \in 1 .. Len(fifo) : ~IsEol(fifo[i])

\* the last call was one that frees room: a read of size >= 1 or a clear
Frees == (Called("read") /\ call.args.size >= 1) \/ Called("clear")

(* C19: once the buffer is full and holds no CR and no LF, every write of  *)
(* size >= 1 returns InsufficientSpace and every readLine returns NoEol,   *)
(* and the buffer stays so after every call that is not a read of size     *)
(* >= 1 or a clear; retrying write and readLine never yields a line.       *)
C19_Stuck ==
    PreStuck =>
        /\ (Called("write") /\ call.args.size >= 1) =>
              call.res = "BSTM_ERR_NO_SPA"
        /\ Called("readline") => call.res = "BSTM_ERR_NO_EOL"
        /\ ~Frees => Stuck

(* C19 as the code has it: the readLine calls that return NoEol are those  *)
(* with valid arguments; one without destination and length pointer        *)
(* returns BSTM_ERR and one with capacity 0 BSTM_ERR_BAD_SIZE. No readLine *)
(* returns a line, and the failed calls change nothing.                    *)
C19_StuckValidArgs ==
    PreStuck =>
        /\ (Called("write") /\ call.args.size >= 1) =>
              call.res = "BSTM_ERR_NO_SPA" /\ Unchanged
        /\ ValidLineArgs => call.res = "BSTM_ERR_NO_EOL"
        /\ (Called("readline") /\ ~call.args.hasData /\ ~call.args.hasLen) =>
              call.res = "BSTM_ERR"
        /\ (Called("readline") /\ (call.args.hasData \/ call.args.hasLen)
                /\ call.args.size = 0) => call.res = "BSTM_ERR_BAD_SIZE"
        /\ Called("readline") =>
              call.res # "BSTM_OK" /\ Unchanged /\ call.out = <<>>
        /\ ~Frees => Stuck /\ fifo = pre.fifo

\* a write of a byte refused on a full buffer without terminator whose
\* bytes lie across the wrap point
C19_Witness ==
    /\ PreStuck /\ PreWrapped
    /\ Called("write") /\ call.args.size >= 1
    /\ call.res = "BSTM_ERR_NO_SPA"
    /\ Stuck

\* a readLine on such a buffer, with valid arguments, answered NoEol
C19_WitnessLine ==
    /\ PreStuck /\ ValidLineArgs
    /\ call.res = "BSTM_ERR_NO_EOL"
    /\ Stuck

\* no thread is in a call
Quiet == thr.w.pc = "idle" /\ thr.r.pc = "idle"

\* the cache agrees with the capacity and with the indexes
Consistent ==
    /\ used_size + free_size = cap_size
    /\ used_size = (tail_idx - head_idx + M) % M

(* C20: with every call run under the caller's lock, no interleaving of    *)
(* the producer's writes and the consumer's reads leaves the cache wrong:  *)
(* between the calls used + free = capacity and used = (tail - head) mod   *)
(* M. Without the lock, with the loads and stores of used_size and         *)
(* free_size interleaved, an update is lost and a state with used + free   *)
(* # capacity or used # (tail - head) mod M is reached (C20_Witness).      *)
C20_LockedIsConsistent ==
    /\ (thr.locked /\ thr.lock = "none") => Quiet /\ Consistent
    /\ thr.locked => ~(thr.w.pc # "idle" /\ thr.r.pc # "idle")

\* without the lock: both threads have returned, and the store of one has
\* overwritten the update of the other
C20_Witness ==
    /\ ~thr.locked /\ Quiet
    /\ thr.w.calls >= 1 /\ thr.r.calls >= 1
    /\ ~Consistent

\* without the lock, the two ways the cache goes wrong
C20_WitnessSum == ~thr.locked /\ Quiet /\ used_size + free_size # cap_size

C20_WitnessUsed ==
    ~thr.locked /\ Quiet /\ used_size # (tail_idx - head_idx + M) % M

\* with the lock: a write and a read have both gone through, bytes remain
C20_WitnessLocked ==
    /\ thr.locked /\ Quiet
    /\ thr.w.calls = MaxCalls /\ thr.r.calls >= 1
    /\ head_idx > 0 /\ used_size > 0
    /\ Consistent

====
